---- MODULE Spec2Model ----
(***************************************************************************)
(* Model of src/data7_code.py: the VIIRS nighttime-lights script.          *)
(* The script is one sequential program: login, search, download, a loop   *)
(* over the downloaded files (extension test, open, clip, statistics,      *)
(* append), and the report.  pc is the position of the script; the         *)
(* external collaborators (earthaccess, rasterio) are inputs drawn with \E.*)
(* Strings are sequences of one-character strings; brightness values are   *)
(* exact fractions <<numerator, denominator>> in lowest terms.             *)
(***************************************************************************)
EXTENDS Integers, Sequences, FiniteSets, TLC

VARIABLES pc, auth, results, downloaded_files, idx, file_path, open_handles,
          exc, out_image, valid_data, mean_brightness, median_brightness,
          filename, date_str, processed_data, csv_files, out, calls, trace

vars == <<pc, auth, results, downloaded_files, idx, file_path, open_handles,
          exc, out_image, valid_data, mean_brightness, median_brightness,
          filename, date_str, processed_data, csv_files, out, calls, trace>>

(* ---------------- bounds of the model ---------------- *)
MaxGranules == 2
MaxPixels == 3

(* ---------------- program constants ---------------- *)
PreviewCount == 5
H5_EXT == <<".", "h", "5">>

(* ---------------- inputs ---------------- *)
(* Paths: the local paths earthaccess.download may return; ClipImages: the  *)
(* pixel arrays mask() may return in the whole script; Images: the pixel    *)
(* arrays the statistics step is checked on (SpecStats).                    *)
P_A == <<"A", ".", "h", "5">>
P_B == <<"B", ".", "h", "5">>
P_DIR_A == <<"v", ".", "d", "/", "A", ".", "h", "5">>
P_VNP == <<"v", "/", "V", "N", "P", "4", "6", "A", "2", ".", "A", "2", "0", "2",
           "3", "0", "3", "2", ".", "h", "1", "0", "v", "0", "4", ".", "0", "0",
           "1", ".", "h", "5">>
P_EMPTY_FIELD == <<"v", "/", "A", ".", ".", "h", "5">>
P_TXT == <<"n", ".", "t", "x", "t">>
Paths == {P_A, P_B, P_DIR_A, P_VNP, P_EMPTY_FIELD, P_TXT}

PixelValues == {-1, 0, 1, 2, 3, 7}
ClipImages == {<<>>, <<0, 0, 0>>, <<-1, 0>>, <<1, 2, 3>>, <<3, -1, 1, 0>>, <<2, 7>>}

SeqsUpTo(S, n) == UNION {[1..k -> S] : k \in 0..n}
Images == SeqsUpTo(PixelValues, MaxPixels)

(* ---------------- pure helpers ---------------- *)
Min(a, b) == IF a < b THEN a ELSE b

RECURSIVE GCD(_, _)
GCD(a, b) == IF b = 0 THEN a ELSE GCD(b, a % b)

Frac(n, d) == LET g == GCD(IF n < 0 THEN -n ELSE n, d) IN <<n \div g, d \div g>>

RECURSIVE Sum(_)
Sum(s) == IF s = <<>> THEN 0 ELSE Head(s) + Sum(Tail(s))

RECURSIVE Insert(_, _)
Insert(x, s) == IF s = <<>> THEN <<x>>
                ELSE IF x <= Head(s) THEN <<x>> \o s
                ELSE <<Head(s)>> \o Insert(x, Tail(s))

RECURSIVE Sorted(_)
Sorted(s) == IF s = <<>> THEN <<>> ELSE Insert(Head(s), Sorted(Tail(s)))

(* A definition named X_Something directly before X is a deliberately      *)
(* faulty variant of X: a property below that is claimed to depend on X     *)
(* fails when X is replaced by it.                                          *)
IsValidPixel_GE(x) == x >= 0

IsValidPixel(x) == x > 0

ValidData(img) == SelectSeq(img, IsValidPixel)

Mean(v) == Frac(Sum(v), Len(v))

Median_Unsorted(v) == LET n == Len(v)
                      IN IF n % 2 = 1 THEN Frac(v[(n + 1) \div 2], 1)
                         ELSE Frac(v[n \div 2] + v[n \div 2 + 1], 2)

Median(v) == LET s == Sorted(v)
                 n == Len(v)
             IN IF n % 2 = 1 THEN Frac(s[(n + 1) \div 2], 1)
                ELSE Frac(s[n \div 2] + s[n \div 2 + 1], 2)

EndsWith(s, suf) == /\ Len(s) >= Len(suf)
                    /\ SubSeq(s, Len(s) - Len(suf) + 1, Len(s)) = suf

LastSlash(s) == LET I == {i \in 1..Len(s) : s[i] = "/"}
                IN IF I = {} THEN 0 ELSE CHOOSE i \in I : \A j \in I : j <= i

Basename(s) == SubSeq(s, LastSlash(s) + 1, Len(s))

RECURSIVE Split(_, _)
Split(s, sep) == LET I == {i \in 1..Len(s) : s[i] = sep}
                 IN IF I = {} THEN <<s>>
                    ELSE LET i == CHOOSE k \in I : \A j \in I : k <= j
                         IN <<SubSeq(s, 1, i - 1)>> \o Split(SubSeq(s, i + 1, Len(s)), sep)

DropFirst(s) == SubSeq(s, 2, Len(s))

DateStr_KeepPrefix(name) == Split(name, ".")[2]

DateStr(name) == DropFirst(Split(name, ".")[2])

AppendRecord_Front(pd, rec) == <<rec>> \o pd

AppendRecord(pd, rec) == Append(pd, rec)

AfterLogin_NoExit(ok) == "search"

AfterLogin(ok) == IF ok THEN "search" ELSE "exited"

AfterSearch_NoExit(n) == "download"

AfterSearch(n) == IF n = 0 THEN "exited" ELSE "download"

AfterDownloadError_Swallowed == "for"

AfterDownloadError == "crashed"

AfterExcept_Break == "report"

AfterExcept == "for"

ReleaseHandle_Leak(h, i) == h

ReleaseHandle(h, i) == h \ {i}

ShouldWrite_Always(pd) == TRUE

ShouldWrite(pd) == pd # <<>>

Record(d, m, md, f) == [date |-> d, mean_brightness |-> m, median_brightness |-> md, file |-> f]

(* calls counts the invocations of the external collaborators; trace       *)
(* records, per file considered, its path and what open/mask answered.      *)
Bump(c, k) == [c EXCEPT ![k] = @ + 1]

NoCalls == [k \in {"login", "search", "download", "open", "mask", "to_csv"} |-> 0]

Unset == <<>>

(* ---------------- initial state ---------------- *)
Init == /\ pc = "login"
        /\ auth = FALSE
        /\ results = <<>>
        /\ downloaded_files = <<>>
        /\ idx = 0
        /\ file_path = Unset
        /\ open_handles = {}
        /\ exc = FALSE
        /\ out_image = Unset
        /\ valid_data = Unset
        /\ mean_brightness = Unset
        /\ median_brightness = Unset
        /\ filename = Unset
        /\ date_str = Unset
        /\ processed_data = <<>>
        /\ csv_files = <<>>
        /\ out = <<"banner">>
        /\ calls = NoCalls
        /\ trace = <<>>

(* ---------------- steps of the script ---------------- *)
Login == /\ pc = "login"
         /\ \E ok \in BOOLEAN :
               /\ auth' = ok
               /\ IF ok THEN out' = out \o <<"login_ok">>
                        ELSE out' = out \o <<"login_failed">>
               /\ pc' = AfterLogin(ok)
         /\ calls' = Bump(calls, "login")
         /\ UNCHANGED <<results, downloaded_files, idx, file_path, open_handles,
                        exc, out_image, valid_data, mean_brightness,
                        median_brightness, filename, date_str, processed_data,
                        csv_files, trace>>

Search == /\ pc = "search"
          /\ \E n \in 0..MaxGranules :
                /\ results' = [i \in 1..n |-> i]
                /\ IF n = 0
                     THEN out' = out \o <<"found", "no_data">>
                     ELSE out' = out \o <<"found">> \o
                                 [i \in 1..Min(n, PreviewCount) |-> "granule"]
                /\ pc' = AfterSearch(n)
          /\ calls' = Bump(calls, "search")
          /\ UNCHANGED <<auth, downloaded_files, idx, file_path, open_handles,
                         exc, out_image, valid_data, mean_brightness,
                         median_brightness, filename, date_str, processed_data,
                         csv_files, trace>>

Download == /\ pc = "download"
            /\ calls' = Bump(calls, "download")
            /\ \/ /\ pc' = AfterDownloadError
                  /\ UNCHANGED <<downloaded_files, out>>
               \/ \E fs \in SeqsUpTo(Paths, Len(results)) :
                     /\ downloaded_files' = fs
                     /\ out' = out \o <<"downloaded">>
                     /\ pc' = "for"
            /\ UNCHANGED <<auth, results, idx, file_path, open_handles, exc,
                           out_image, valid_data, mean_brightness,
                           median_brightness, filename, date_str,
                           processed_data, csv_files, trace>>

ForNext == /\ pc = "for"
           /\ IF idx < Len(downloaded_files)
                THEN /\ idx' = idx + 1
                     /\ file_path' = downloaded_files[idx + 1]
                     /\ pc' = "ext"
                ELSE /\ pc' = "report"
                     /\ UNCHANGED <<idx, file_path>>
           /\ UNCHANGED <<auth, results, downloaded_files, open_handles, exc,
                          out_image, valid_data, mean_brightness,
                          median_brightness, filename, date_str,
                          processed_data, csv_files, out, calls, trace>>

CheckExt == /\ pc = "ext"
            /\ IF EndsWith(file_path, H5_EXT)
                 THEN /\ out' = out \o <<"processing">>
                      /\ pc' = "open"
                      /\ UNCHANGED trace
                 ELSE /\ pc' = "for"
                      /\ trace' = Append(trace, [path |-> file_path, outcome |-> "skipped", image |-> <<>>])
                      /\ UNCHANGED out
            /\ UNCHANGED <<auth, results, downloaded_files, idx, file_path,
                           open_handles, exc, out_image, valid_data,
                           mean_brightness, median_brightness, filename,
                           date_str, processed_data, csv_files, calls>>

OpenRaster == /\ pc = "open"
              /\ calls' = Bump(calls, "open")
              /\ \/ /\ open_handles' = open_handles \cup {idx}
                    /\ pc' = "mask"
                    /\ UNCHANGED <<exc, trace>>
                 \/ /\ exc' = TRUE
                    /\ pc' = "except"
                    /\ trace' = Append(trace, [path |-> file_path, outcome |-> "open_error", image |-> <<>>])
                    /\ UNCHANGED open_handles
              /\ UNCHANGED <<auth, results, downloaded_files, idx, file_path,
                             out_image, valid_data, mean_brightness,
                             median_brightness, filename, date_str,
                             processed_data, csv_files, out>>

Mask == /\ pc = "mask"
        /\ calls' = Bump(calls, "mask")
        /\ \/ \E img \in ClipImages :
                 /\ out_image' = img
                 /\ pc' = "stats"
                 /\ UNCHANGED <<exc, trace>>
           \/ /\ exc' = TRUE
              /\ pc' = "exit_with"
              /\ trace' = Append(trace, [path |-> file_path, outcome |-> "mask_error", image |-> <<>>])
              /\ UNCHANGED out_image
        /\ UNCHANGED <<auth, results, downloaded_files, idx, file_path,
                       open_handles, valid_data, mean_brightness,
                       median_brightness, filename, date_str, processed_data,
                       csv_files, out>>

Stats == /\ pc = "stats"
         /\ valid_data' = ValidData(out_image)
         /\ IF Len(valid_data') > 0
              THEN /\ mean_brightness' = Mean(valid_data')
                   /\ median_brightness' = Median(valid_data')
                   /\ filename' = Basename(file_path)
                   /\ date_str' = DateStr(filename')
                   /\ processed_data' = AppendRecord(processed_data,
                         Record(date_str', mean_brightness', median_brightness', filename'))
                   /\ out' = out \o <<"mean">>
              ELSE UNCHANGED <<mean_brightness, median_brightness, filename,
                               date_str, processed_data, out>>
         /\ trace' = Append(trace, [path |-> file_path, outcome |-> "ok", image |-> out_image])
         /\ pc' = "exit_with"
         /\ UNCHANGED <<auth, results, downloaded_files, idx, file_path,
                        open_handles, exc, out_image, csv_files, calls>>

ExitWith == /\ pc = "exit_with"
            /\ open_handles' = ReleaseHandle(open_handles, idx)
            /\ pc' = IF exc THEN "except" ELSE "for"
            /\ UNCHANGED <<auth, results, downloaded_files, idx, file_path, exc,
                           out_image, valid_data, mean_brightness,
                           median_brightness, filename, date_str,
                           processed_data, csv_files, out, calls, trace>>

Except == /\ pc = "except"
          /\ out' = out \o <<"failed">>
          /\ exc' = FALSE
          /\ pc' = AfterExcept
          /\ UNCHANGED <<auth, results, downloaded_files, idx, file_path,
                         open_handles, out_image, valid_data, mean_brightness,
                         median_brightness, filename, date_str, processed_data,
                         csv_files, calls, trace>>

Report == /\ pc = "report"
          /\ IF ShouldWrite(processed_data)
               THEN /\ csv_files' = Append(csv_files, processed_data)
                    /\ calls' = Bump(calls, "to_csv")
                    /\ out' = out \o <<"saved", "preview">>
               ELSE /\ out' = out \o <<"warning">>
                    /\ UNCHANGED <<csv_files, calls>>
          /\ pc' = "epilogue"
          /\ UNCHANGED <<auth, results, downloaded_files, idx, file_path,
                         open_handles, exc, out_image, valid_data,
                         mean_brightness, median_brightness, filename, date_str,
                         processed_data, trace>>

Epilogue == /\ pc = "epilogue"
            /\ out' = out \o <<"alternative", "complete">>
            /\ pc' = "done"
            /\ UNCHANGED <<auth, results, downloaded_files, idx, file_path,
                           open_handles, exc, out_image, valid_data,
                           mean_brightness, median_brightness, filename,
                           date_str, processed_data, csv_files, calls, trace>>

Next == \/ Login
        \/ Search
        \/ Download
        \/ ForNext
        \/ CheckExt
        \/ OpenRaster
        \/ Mask
        \/ Stats
        \/ ExitWith
        \/ Except
        \/ Report
        \/ Epilogue

Spec == Init /\ [][Next]_vars

TypeOK == /\ pc \in {"login", "search", "download", "for", "ext", "open", "mask",
                     "stats", "exit_with", "except", "report", "epilogue",
                     "done", "exited", "crashed"}
          /\ idx \in 0..Len(downloaded_files)
          /\ open_handles \subseteq 1..Len(downloaded_files)
(* ---------------- the statistics step on arbitrary clipped images ------- *)
(* The script stands at line 120 with the first file open and mask() having *)
(* returned an arbitrary image of at most MaxPixels pixels.                 *)
H5Paths == {p \in Paths : EndsWith(p, H5_EXT)}

InitStats == /\ pc = "stats"
             /\ auth = TRUE
             /\ results = <<1>>
             /\ file_path \in H5Paths
             /\ downloaded_files = <<file_path>>
             /\ idx = 1
             /\ open_handles = {1}
             /\ exc = FALSE
             /\ out_image \in Images
             /\ valid_data = Unset
             /\ mean_brightness = Unset
             /\ median_brightness = Unset
             /\ filename = Unset
             /\ date_str = Unset
             /\ processed_data = <<>>
             /\ csv_files = <<>>
             /\ out = <<"banner", "login_ok", "found", "granule", "downloaded", "processing">>
             /\ calls = [NoCalls EXCEPT !["login"] = 1, !["search"] = 1,
                                        !["download"] = 1, !["open"] = 1, !["mask"] = 1]
             /\ trace = <<>>

NextStats == Stats

SpecStats == InitStats /\ [][NextStats]_vars

(* ======================= properties ======================= *)
Range(s) == {s[i] : i \in DOMAIN s}

Count(s, x) == Cardinality({i \in DOMAIN s : s[i] = x})

Failed(e) == e.outcome \in {"open_error", "mask_error"}

HasPositive(img) == \E i \in DOMAIN img : img[i] > 0

LoopLevel == pc \in {"for", "report", "epilogue", "done"}

LoopOver == pc \in {"report", "epilogue", "done"}

NoRasterWork == /\ calls["open"] = 0
                /\ calls["mask"] = 0
                /\ open_handles = {}
                /\ processed_data = <<>>
                /\ csv_files = <<>>
                /\ calls["to_csv"] = 0

(* C1: when the login returns a failure signal the script exits at once:    *)
(* nothing is printed after the failure line, the search and the download   *)
(* are never called, no raster is opened, no record is appended and no      *)
(* summary file is written.                                                 *)
C1_AuthFailureHalts ==
    (calls["login"] = 1 /\ ~auth) =>
        /\ pc = "exited"
        /\ out = <<"banner", "login_failed">>
        /\ calls["search"] = 0
        /\ calls["download"] = 0
        /\ NoRasterWork

C1_Witness == pc = "exited" /\ calls["login"] = 1 /\ ~auth

(* C2: when the search returns no granule the script exits: the download is *)
(* never called, no raster is processed and no summary file is written.     *)
C2_EmptySearchHalts ==
    (calls["search"] = 1 /\ results = <<>>) =>
        /\ pc = "exited"
        /\ calls["download"] = 0
        /\ downloaded_files = <<>>
        /\ NoRasterWork

C2_Witness == pc = "exited" /\ auth /\ calls["search"] = 1 /\ results = <<>>

(* C10: an error raised by the download is not caught: the script stops     *)
(* there, so no raster is opened, no record is appended and no summary file *)
(* is written.                                                              *)
DownloadRaised == calls["download"] = 1 /\ "downloaded" \notin Range(out)

C10_DownloadErrorHalts ==
    DownloadRaised =>
        /\ pc = "crashed"
        /\ idx = 0
        /\ trace = <<>>
        /\ NoRasterWork

C10_Witness == pc = "crashed" /\ DownloadRaised /\ Len(results) = MaxGranules
(* ---- what a run over a list of per-file observations should produce ---- *)
ExpectedRecord(e) ==
    IF EndsWith(e.path, H5_EXT) /\ e.outcome = "ok" /\ HasPositive(e.image)
      THEN <<Record(DateStr(Basename(e.path)), Mean(ValidData(e.image)),
                    Median(ValidData(e.image)), Basename(e.path))>>
      ELSE <<>>

RECURSIVE ExpectedRecords(_)
ExpectedRecords(es) ==
    IF es = <<>> THEN <<>> ELSE ExpectedRecord(Head(es)) \o ExpectedRecords(Tail(es))

NotFailed(e) == ~Failed(e)

FailedCount == Cardinality({i \in DOMAIN trace : Failed(trace[i])})

PendingDiagnostic == IF exc THEN 1 ELSE 0

(* C3: a failing open or clip is isolated: the failing file gets one        *)
(* diagnostic and no record, every later file of the list is still          *)
(* considered, and the records are those of a run over the list without     *)
(* the failing files.                                                       *)
C3_PerFileIsolation ==
    /\ pc # "crashed" \/ trace = <<>>
    /\ Len(trace) <= Len(downloaded_files)
    /\ \A i \in DOMAIN trace : trace[i].path = downloaded_files[i]
    /\ LoopLevel => Len(trace) = idx
    /\ LoopOver => Len(trace) = Len(downloaded_files)
    /\ Count(out, "failed") + PendingDiagnostic >= FailedCount
    /\ processed_data = ExpectedRecords(SelectSeq(trace, NotFailed))

C3_Witness ==
    /\ pc = "done"
    /\ Len(trace) = 2
    /\ trace[1].outcome = "mask_error"
    /\ trace[2].outcome = "ok"
    /\ Len(processed_data) = 1
    /\ Count(out, "failed") = 1

(* C4: a record is appended for a file exactly when its path ends in .h5,   *)
(* the open and the clip succeed and some clipped pixel is > 0; a file      *)
(* without the extension or without a positive pixel gets neither a record  *)
(* nor a diagnostic.  For [A.h5, B.h5] with pixels [1,2,3] and all zeros    *)
(* the result is the single record of A with mean 2 and median 2.           *)
Qualifies(e) == /\ EndsWith(e.path, H5_EXT)
                /\ e.outcome = "ok"
                /\ \E i \in DOMAIN e.image : e.image[i] > 0

QualifyingNames == LET q == SelectSeq(trace, Qualifies)
                   IN [i \in DOMAIN q |-> Basename(q[i].path)]

ScenarioAB == /\ downloaded_files = <<P_A, P_B>>
              /\ Len(trace) = 2
              /\ trace[1].outcome = "ok" /\ trace[1].image = <<1, 2, 3>>
              /\ trace[2].outcome = "ok" /\ trace[2].image = <<0, 0, 0>>

C4_RecordIff ==
    /\ [i \in DOMAIN processed_data |-> processed_data[i].file] = QualifyingNames
    /\ Count(out, "mean") = Len(QualifyingNames)
    /\ Count(out, "failed") <= FailedCount
    /\ \A i \in DOMAIN trace :
          (trace[i].outcome = "skipped") = ~EndsWith(trace[i].path, H5_EXT)
    /\ ScenarioAB =>
          processed_data = <<Record(<<"5">>, <<2, 1>>, <<2, 1>>, P_A)>>

C4_Witness == pc = "done" /\ ScenarioAB /\ Len(processed_data) = 1

(* C6: the records are in file-processing order: their file fields are a    *)
(* subsequence of the basenames of the downloaded list, no file yields      *)
(* more than one record, and a step only ever appends at the end, leaving   *)
(* the earlier records as they are; the table written is that sequence.     *)
RECURSIVE IsSubseq(_, _)
IsSubseq(a, b) == IF a = <<>> THEN TRUE
                  ELSE IF b = <<>> THEN FALSE
                  ELSE IF Head(a) = Head(b) THEN IsSubseq(Tail(a), Tail(b))
                  ELSE IsSubseq(a, Tail(b))

RecordFiles == [i \in DOMAIN processed_data |-> processed_data[i].file]

ConsideredNames == [i \in 1..idx |-> Basename(downloaded_files[i])]

OrderInv == /\ IsSubseq(RecordFiles, ConsideredNames)
            /\ Len(processed_data) <= idx
            /\ \A i \in DOMAIN csv_files : csv_files[i] = processed_data

AppendOnly == /\ Len(processed_data') \in {Len(processed_data), Len(processed_data) + 1}
              /\ SubSeq(processed_data', 1, Len(processed_data)) = processed_data
              /\ Len(processed_data') > Len(processed_data) =>
                    /\ idx' = idx
                    /\ Len(processed_data) < idx
                    /\ processed_data'[Len(processed_data')].file = Basename(downloaded_files[idx])

C6_RowOrder == []OrderInv /\ [][AppendOnly]_vars

C6_Witness ==
    /\ pc = "done"
    /\ Len(processed_data) = 2
    /\ processed_data[1].file # processed_data[2].file
    /\ csv_files = <<processed_data>>

(* C7: with no record (empty list, or every file excluded, failed or        *)
(* without a positive pixel) no summary file is written, one warning is     *)
(* printed and the script runs on to its end; the summary is written only   *)
(* with at least one record, once, after the whole list was considered.     *)
C7_SummaryOnlyWithRecords ==
    /\ Len(csv_files) <= 1
    /\ calls["to_csv"] = Len(csv_files)
    /\ csv_files # <<>> =>
          /\ pc \in {"epilogue", "done"}
          /\ idx = Len(downloaded_files)
          /\ processed_data # <<>>
    /\ pc \in {"epilogue", "done"} =>
          /\ (csv_files # <<>>) = (processed_data # <<>>)
          /\ Count(out, "warning") = (IF processed_data = <<>> THEN 1 ELSE 0)
          /\ Count(out, "saved") = (IF processed_data = <<>> THEN 0 ELSE 1)
    /\ pc \notin {"epilogue", "done"} => Count(out, "warning") = 0
    /\ pc \in {"report", "epilogue"} => ENABLED Next
    /\ pc = "done" => out[Len(out)] = "complete"

C7_Witness ==
    /\ pc = "done"
    /\ processed_data = <<>>
    /\ csv_files = <<>>
    /\ Len(trace) = 2
    /\ {trace[1].outcome, trace[2].outcome} = {"open_error", "ok"}

(* C9: at most one raster handle is open, it is the handle of the current   *)
(* file, and it is released before the next file is considered, whether     *)
(* the file ended normally, had no positive pixel, or raised after the open.*)
C9_OneHandle ==
    /\ Cardinality(open_handles) <= 1
    /\ open_handles \subseteq {idx}
    /\ pc \in {"mask", "stats", "exit_with"} => open_handles = {idx}
    /\ pc \notin {"mask", "stats", "exit_with"} => open_handles = {}

C9_Witness ==
    /\ pc = "except"
    /\ idx = 2
    /\ Len(trace) = 2
    /\ trace[1].outcome = "ok"
    /\ trace[2].outcome = "mask_error"
    /\ open_handles = {}
(* ---- mean and median stated over the positive pixels, without sorting -- *)
PosIdx(img) == {i \in DOMAIN img : img[i] > 0}

RECURSIVE SumAt(_, _)
SumAt(img, I) == IF I = {} THEN 0
                 ELSE LET i == CHOOSE k \in I : TRUE
                      IN img[i] + SumAt(img, I \ {i})

(* the k-th smallest positive pixel (an order statistic) *)
Kth(img, k) ==
    CHOOSE v \in {img[i] : i \in PosIdx(img)} :
        /\ Cardinality({i \in PosIdx(img) : img[i] < v}) < k
        /\ Cardinality({i \in PosIdx(img) : img[i] <= v}) >= k

IsMeanOf(m, img) == LET n == Cardinality(PosIdx(img))
                    IN /\ m[2] > 0
                       /\ m[1] * n = SumAt(img, PosIdx(img)) * m[2]

IsMedianOf(m, img) == LET n == Cardinality(PosIdx(img))
                      IN /\ m[2] > 0
                         /\ 2 * m[1] = (Kth(img, (n + 1) \div 2) + Kth(img, n \div 2 + 1)) * m[2]

(* the images that differ from img in one pixel <= 0: one such pixel        *)
(* removed, changed to another value <= 0, or inserted                      *)
NonPositive == {v \in PixelValues : v <= 0}

RemoveAt(img, i) == SubSeq(img, 1, i - 1) \o SubSeq(img, i + 1, Len(img))

InsertAt(img, i, v) == SubSeq(img, 1, i) \o <<v>> \o SubSeq(img, i + 1, Len(img))

NonPositiveEdits(img) ==
    {RemoveAt(img, i) : i \in {j \in DOMAIN img : img[j] <= 0}}
    \cup {[img EXCEPT ![i] = v] : i \in {j \in DOMAIN img : img[j] <= 0}, v \in NonPositive}
    \cup {InsertAt(img, i, v) : i \in 0..Len(img), v \in NonPositive}

(* C5: for a clipped image with a positive pixel the record's mean and      *)
(* median are the mean and median of exactly the pixels > 0: both are >= 0, *)
(* and removing, changing or adding a pixel <= 0 changes neither.           *)
C5_PositiveSubsetStats ==
    (pc = "exit_with" /\ HasPositive(out_image)) =>
        /\ Len(processed_data) = 1
        /\ processed_data[1].mean_brightness = mean_brightness
        /\ processed_data[1].median_brightness = median_brightness
        /\ IsMeanOf(mean_brightness, out_image)
        /\ IsMedianOf(median_brightness, out_image)
        /\ GCD(mean_brightness[1], mean_brightness[2]) = 1
        /\ GCD(median_brightness[1], median_brightness[2]) = 1
        /\ mean_brightness[1] >= 0
        /\ median_brightness[1] >= 0
        /\ \A img \in NonPositiveEdits(out_image) :
              /\ Mean(ValidData(img)) = mean_brightness
              /\ Median(ValidData(img)) = median_brightness

C5_Witness ==
    /\ pc = "exit_with"
    /\ out_image = <<7, -1, 1>>
    /\ mean_brightness = <<4, 1>>
    /\ median_brightness = <<4, 1>>
    /\ Len(processed_data) = 1

(* C8: the record's date is a function of the basename alone: the text      *)
(* between the first and the second '.' of the basename (to the end when    *)
(* there is one '.'), without its first character; 2023032 for              *)
(* VNP46A2.A2023032.h10v04.001.h5; the same basename gives the same date    *)
(* whatever the directory, the pixels or the position in the list.          *)
Dots(b) == {i \in DOMAIN b : b[i] = "."}

IsTokenOf(t, b) ==
    \E d1 \in Dots(b) :
        /\ \A d \in Dots(b) : d1 <= d
        /\ \E d2 \in (Dots(b) \ {d1}) \cup {Len(b) + 1} :
              /\ \A d \in Dots(b) \ {d1} : d2 <= d
              /\ t = [i \in 1..(IF d2 - d1 - 2 > 0 THEN d2 - d1 - 2 ELSE 0) |-> b[d1 + 1 + i]]

VNP_NAME == Basename(P_VNP)

C8_DateToken ==
    /\ \A i \in DOMAIN processed_data :
          /\ IsTokenOf(processed_data[i].date, processed_data[i].file)
          /\ "/" \notin Range(processed_data[i].file)
          /\ processed_data[i].file = VNP_NAME =>
                processed_data[i].date = <<"2", "0", "2", "3", "0", "3", "2">>
    /\ \A i, j \in DOMAIN processed_data :
          processed_data[i].file = processed_data[j].file =>
             processed_data[i].date = processed_data[j].date
    /\ (pc = "exit_with" /\ ~exc /\ HasPositive(out_image)) =>
          /\ filename = [i \in 1..(Len(file_path) - LastSlash(file_path)) |->
                            file_path[LastSlash(file_path) + i]]
          /\ processed_data[Len(processed_data)].file = filename
          /\ processed_data[Len(processed_data)].date = date_str

C8_Witness ==
    /\ pc = "done"
    /\ downloaded_files = <<P_DIR_A, P_A>>
    /\ Len(processed_data) = 2
    /\ processed_data[1].file = processed_data[2].file
    /\ processed_data[1].date = <<"5">>
    /\ processed_data[1].mean_brightness # processed_data[2].mean_brightness

C8_ExampleReached ==
    \E i \in DOMAIN processed_data :
        processed_data[i].file = VNP_NAME /\ processed_data[i].date = <<"2", "0", "2", "3", "0", "3", "2">>
====
